---------------------------- MODULE Spec2Model ----------------------------
(***************************************************************************)
(* Brain-Atlas-Checker (src/atlas_checker.py): one run of main(), which    *)
(* loads the catalog CSV, walks the root for label directories, collects   *)
(* the sample values of every *.tif in each, coerces them with int(),      *)
(* subtracts the catalog and renders the report (JSON file or stdout).     *)
(***************************************************************************)
EXTENDS Integers, Sequences, FiniteSets, TLC

\* Bounds of the model.
MaxRows == 2
MaxFiles == 2
MaxLabel == 2

(***************************************************************************)
(* Values                                                                  *)
(***************************************************************************)
\* A decoded sample: a finite number given in halves (h = 2 * value, so an
\* odd h carries the fractional part .5), a NaN or an infinity.
Num(h) == [k |-> "num", h |-> h]
NaN == [k |-> "nan", h |-> 0]
Inf == [k |-> "inf", h |-> 0]
\* The samples an image may hold: the labels 1..MaxLabel, one value with a
\* fractional part (MaxLabel + 0.5), NaN and an infinity.
Samples ==
    {Num(2 * n) : n \in 1..MaxLabel} \cup {Num(2 * MaxLabel + 1), NaN, Inf}

\* int(value) on a numpy scalar: truncation toward zero for a finite number,
\* ValueError for NaN, OverflowError for an infinity.
PyInt(v) ==
    IF v.k = "nan" THEN [exc |-> "ValueError", val |-> 0]
    ELSE IF v.k = "inf" THEN [exc |-> "OverflowError", val |-> 0]
    ELSE [exc |-> "none",
          val |-> IF v.h >= 0 THEN v.h \div 2 ELSE -((-v.h) \div 2)]

\* except (ValueError, TypeError): continue
CaughtBySampleHandler(exc) == exc \in {"ValueError", "TypeError"}

\* The id cell of a CSV row as csv.DictReader hands it over: a text, None
\* (a short row: restval), or a line the csv module rejects (csv.Error).
Cell(t) == [kind |-> "text", text |-> t]
NoneCell == [kind |-> "none", text |-> ""]
BadLine == [kind |-> "csverror", text |-> ""]
IntTexts == {ToString(i) : i \in 1..MaxLabel}
Cells == {Cell(t) : t \in IntTexts \cup {"", "abc"}} \cup {NoneCell, BadLine}

\* int(text) on a str: the decimal numeral's value, ValueError otherwise;
\* int(None) is a TypeError.
PyIntStr(c) ==
    IF c.kind = "none" THEN [exc |-> "TypeError", val |-> 0]
    ELSE IF c.text \in IntTexts
         THEN [exc |-> "none",
               val |-> CHOOSE i \in 1..MaxLabel : ToString(i) = c.text]
         ELSE [exc |-> "ValueError", val |-> 0]

\* What processing one row of the reader raises ("none": the id was added).
RowOutcome(hasId, c) ==
    IF c.kind = "csverror" THEN "ValueError"
    ELSE IF ~hasId THEN "KeyError"
    ELSE PyIntStr(c).exc

SeqsUpTo(S, n) == UNION {[1..k -> S] : k \in 0..n}

\* The CSV files the path may hold: whether the header names an id column,
\* and the id cell of each data row.
CsvFiles ==
    {[has_id |-> TRUE, rows |-> r] : r \in SeqsUpTo(Cells, MaxRows)}
    \cup {[has_id |-> FALSE, rows |-> r] : r \in SeqsUpTo({NoneCell}, MaxRows)}

(***************************************************************************)
(* Paths and directory contents                                            *)
(***************************************************************************)
LabelDirName == "atlaslabel_def_origspace"
Cwd == <<"/", "home">>
RootPath == <<"data">>
NoDir == <<>>

\* Path.absolute(): an absolute path is kept, a relative one is put under
\* the working directory.
Absolute(p) == IF Len(p) > 0 /\ p[1] = "/" THEN p ELSE Cwd \o p

\* The entries rglob can match under the root: one label directory and one
\* nested inside it.
Candidates == {RootPath \o <<LabelDirName>>,
               RootPath \o <<LabelDirName, LabelDirName>>}

Parent(p) == SubSeq(p, 1, Len(p) - 1)

\* A tree says of each candidate whether it is absent, a directory or a
\* file of that name; an entry below another needs that one to be a directory.
Trees ==
    {t \in [Candidates -> {"absent", "dir", "file"}] :
        \A p \in Candidates :
            (t[p] # "absent" /\ Parent(p) \in Candidates) => t[Parent(p)] = "dir"}

\* root_path.rglob("atlaslabel_def_origspace")
Rglob(t) == {[path |-> p, is_dir |-> t[p] = "dir"] : p \in {q \in Candidates : t[q] # "absent"}}

\* A directory entry: its suffix and, for an image, whether it decodes and
\* the sample values it holds.
Image(vals) == [suffix |-> ".tif", ok |-> TRUE, vals |-> vals]
Corrupt == [suffix |-> ".tif", ok |-> FALSE, vals |-> {}]
Other == [suffix |-> ".TIF", ok |-> FALSE, vals |-> {}]
Entries == {Image({s}) : s \in Samples} \cup {Corrupt, Other}
Listings == SeqsUpTo(Entries, MaxFiles)

MatchesTif(e) == e.suffix = ".tif"

\* Path(directory_path).glob("*.tif"), in the order of enumeration.
GlobTif(listing) == SelectSeq(listing, MatchesTif)

(***************************************************************************)
(* Reconciliation and rendering                                            *)
(***************************************************************************)
ReconcileReversed(tiff, csv) == csv \ tiff

ReconcileUnion(tiff, csv) == tiff \cup csv

\* tiff_integers - csv_ids
Reconcile(tiff, csv) == tiff \ csv

Min(S) == CHOOSE m \in S : \A x \in S : m <= x

\* sorted(missing_ids)
RECURSIVE Sorted(_)
Sorted(S) ==
    IF S = {} THEN <<>>
    ELSE LET m == Min(S) IN <<m>> \o Sorted(S \ {m})

Range(s) == {s[i] : i \in DOMAIN s}

\* list(obj) on a set: its elements once each, in the set's iteration order,
\* which the language leaves open.
ListsOf(S) == {s \in [1..Cardinality(S) -> S] : Range(s) = S}

StdoutLinesNonEmpty(res) ==
    {<<d, Sorted(res[d])>> : d \in {k \in DOMAIN res : res[k] # {}}}

\* for directory, missing_ids in results.items(): echo both
StdoutLines(res) == {<<d, Sorted(res[d])>> : d \in DOMAIN res}

NoReport == [kind |-> "none"]


(***************************************************************************)
(* State                                                                   *)
(***************************************************************************)
VARIABLES
    pc,             \* position of the run
    root_exists,    \* root_path.exists()
    csv_exists,     \* csv_path.exists()
    has_id,         \* the open CSV's header names an id column
    reader,         \* rows the DictReader has not yielded yet
    unique_ids,     \* get_csv_ids' accumulator
    csv_loaded,     \* get_csv_ids returned
    csv_ids,        \* the catalog scan_for_label_directories holds
    target_dirs,    \* entries rglob has not yielded yet
    directory,      \* the loop's current directory
    files,          \* glob("*.tif") of the current directory
    idx,            \* next file of files to read
    unique_values,  \* get_unique_values_from_tiff_dir's accumulator
    todo,           \* tiff_values not yet visited by the coercion loop
    tiff_integers,  \* the coercion loop's accumulator
    results,        \* absolute path -> missing ids
    file_errors,    \* "Error processing file ..." lines printed
    processed,      \* "Successfully processed directory: ..." lines printed
    dir_errors,     \* "Error processing directory ..." lines printed
    error,          \* the exception main's handler received
    outcome,        \* "running", "success" or "failure" (click.Abort)
    report          \* what was written to --output or echoed to stdout

vars == <<pc, root_exists, csv_exists, has_id, reader, unique_ids,
          csv_loaded, csv_ids, target_dirs, directory, files, idx,
          unique_values, todo, tiff_integers, results, file_errors,
          processed, dir_errors, error, outcome, report>>

envVars == <<root_exists, csv_exists>>
csvVars == <<has_id, reader, unique_ids, csv_loaded, csv_ids>>
dirVars == <<directory, files, idx, unique_values, todo, tiff_integers>>
logVars == <<file_errors, processed, dir_errors>>
endVars == <<error, outcome, report>>

Init ==
    /\ pc = "main"
    /\ root_exists \in BOOLEAN
    /\ csv_exists \in BOOLEAN
    /\ has_id = TRUE
    /\ reader = <<>>
    /\ unique_ids = {}
    /\ csv_loaded = FALSE
    /\ csv_ids = {}
    /\ target_dirs = {}
    /\ directory = NoDir
    /\ files = <<>>
    /\ idx = 1
    /\ unique_values = {}
    /\ todo = {}
    /\ tiff_integers = {}
    /\ results = <<>>
    /\ file_errors = {}
    /\ processed = {}
    /\ dir_errors = {}
    /\ error = "none"
    /\ outcome = "running"
    /\ report = NoReport

(***************************************************************************)
(* scan_for_label_directories: root check and catalog load                 *)
(***************************************************************************)
\* root_path.exists()
RootPathExists == root_exists

CsvPathExistsAlways == TRUE

\* csv_path.exists()
CsvPathExists == csv_exists

\* main calls scan_for_label_directories, which checks the root first.
CheckRoot ==
    /\ pc = "main"
    /\ IF RootPathExists
       THEN pc' = "load" /\ error' = error
       ELSE pc' = "except" /\ error' = "InvalidRootPath"
    /\ UNCHANGED <<envVars, csvVars, target_dirs, dirVars, results, logVars,
                   outcome, report>>

\* get_csv_ids up to the DictReader: FileNotFoundError, or the open file.
OpenCsv ==
    /\ pc = "load"
    /\ IF CsvPathExists
       THEN \E f \in CsvFiles :
               /\ has_id' = f.has_id
               /\ reader' = f.rows
               /\ unique_ids' = {}
               /\ pc' = "rows"
               /\ error' = error
       ELSE /\ pc' = "except"
            /\ error' = "FileNotFoundError"
            /\ UNCHANGED <<has_id, reader, unique_ids>>
    /\ UNCHANGED <<envVars, csv_loaded, csv_ids, target_dirs, dirVars,
                   results, logVars, outcome, report>>

\* One turn of "for row in reader": the id is added, or the exception the
\* row raises leaves get_csv_ids and scan_for_label_directories.
ReadRow ==
    /\ pc = "rows"
    /\ reader # <<>>
    /\ LET c == Head(reader)
           exc == RowOutcome(has_id, c)
       IN IF exc = "none"
          THEN /\ unique_ids' = unique_ids \cup {PyIntStr(c).val}
               /\ reader' = Tail(reader)
               /\ pc' = pc
               /\ error' = error
          ELSE /\ pc' = "except"
               /\ error' = exc
               /\ UNCHANGED <<unique_ids, reader>>
    /\ UNCHANGED <<envVars, has_id, csv_loaded, csv_ids, target_dirs, dirVars,
                   results, logVars, outcome, report>>

\* return unique_ids; csv_ids = get_csv_ids(csv_path)
ReturnIds ==
    /\ pc = "rows"
    /\ reader = <<>>
    /\ csv_ids' = unique_ids
    /\ csv_loaded' = TRUE
    /\ pc' = "rglob"
    /\ UNCHANGED <<envVars, has_id, reader, unique_ids, target_dirs, dirVars,
                   results, logVars, endVars>>

(***************************************************************************)
(* scan_for_label_directories: the directory loop                          *)
(***************************************************************************)
\* target_dirs = root_path.rglob(...)
StartScan ==
    /\ pc = "rglob"
    /\ \E t \in Trees : target_dirs' = Rglob(t)
    /\ pc' = "loop"
    /\ UNCHANGED <<envVars, csvVars, dirVars, results, logVars, endVars>>

\* The next entry of target_dirs: skipped unless it is a directory, else
\* its *.tif files are enumerated.
NextDir ==
    /\ pc = "loop"
    /\ \E e \in target_dirs :
        /\ target_dirs' = target_dirs \ {e}
        /\ IF e.is_dir
           THEN /\ directory' = e.path
                /\ \E l \in Listings : files' = GlobTif(l)
                /\ idx' = 1
                /\ unique_values' = {}
                /\ pc' = "files"
                /\ UNCHANGED <<todo, tiff_integers>>
           ELSE UNCHANGED <<pc, dirVars>>
    /\ UNCHANGED <<envVars, csvVars, results, logVars, endVars>>

\* One file of the directory: its values join unique_values, or the decode
\* error is printed and the loop goes on.
ReadFile ==
    /\ pc = "files"
    /\ idx <= Len(files)
    /\ IF files[idx].ok
       THEN /\ unique_values' = unique_values \cup files[idx].vals
            /\ file_errors' = file_errors
       ELSE /\ file_errors' = file_errors \cup {<<Absolute(directory), idx>>}
            /\ unique_values' = unique_values
    /\ idx' = idx + 1
    /\ UNCHANGED <<envVars, csvVars, target_dirs, directory, files, todo,
                   tiff_integers, results, processed, dir_errors, pc, endVars>>

\* return unique_values; tiff_integers = set()
ReturnValues ==
    /\ pc = "files"
    /\ idx > Len(files)
    /\ todo' = unique_values
    /\ tiff_integers' = {}
    /\ pc' = "coerce"
    /\ UNCHANGED <<envVars, csvVars, target_dirs, directory, files, idx,
                   unique_values, results, logVars, endVars>>

\* One turn of "for value in tiff_values": int(value) is added, or its
\* ValueError/TypeError skips the value, or any other exception reaches the
\* directory's handler, which prints it and moves to the next directory.
CoerceValue ==
    /\ pc = "coerce"
    /\ \E v \in todo :
        LET r == PyInt(v)
        IN IF r.exc = "none"
           THEN /\ tiff_integers' = tiff_integers \cup {r.val}
                /\ todo' = todo \ {v}
                /\ UNCHANGED <<pc, dir_errors>>
           ELSE IF CaughtBySampleHandler(r.exc)
           THEN /\ todo' = todo \ {v}
                /\ UNCHANGED <<pc, dir_errors, tiff_integers>>
           ELSE /\ dir_errors' = dir_errors \cup {Absolute(directory)}
                /\ pc' = "loop"
                /\ UNCHANGED <<todo, tiff_integers>>
    /\ UNCHANGED <<envVars, csvVars, target_dirs, directory, files, idx,
                   unique_values, results, file_errors, processed, endVars>>

\* results[abs_path] = tiff_integers - csv_ids, and the success line.
StoreResult ==
    /\ pc = "coerce"
    /\ todo = {}
    /\ results' = (Absolute(directory) :> Reconcile(tiff_integers, csv_ids)) @@ results
    /\ processed' = processed \cup {Absolute(directory)}
    /\ pc' = "loop"
    /\ UNCHANGED <<envVars, csvVars, target_dirs, dirVars, file_errors,
                   dir_errors, endVars>>

\* return results
ReturnResults ==
    /\ pc = "loop"
    /\ target_dirs = {}
    /\ pc' = "output"
    /\ UNCHANGED <<envVars, csvVars, target_dirs, dirVars, results, logVars,
                   endVars>>

(***************************************************************************)
(* main: output and the exception handler                                  *)
(***************************************************************************)
\* if output: json.dump(results, f, cls=SetEncoder), each set becoming
\* list(set).
WriteJson ==
    /\ pc = "output"
    /\ \E body \in [DOMAIN results -> UNION {ListsOf(results[d]) : d \in DOMAIN results}] :
        /\ \A d \in DOMAIN results : body[d] \in ListsOf(results[d])
        /\ report' = [kind |-> "json", body |-> body]
    /\ outcome' = "success"
    /\ pc' = "done"
    /\ UNCHANGED <<envVars, csvVars, target_dirs, dirVars, results, logVars,
                   error>>

\* else: the console rendering of results.
PrintResults ==
    /\ pc = "output"
    /\ report' = [kind |-> "stdout", lines |-> StdoutLines(results)]
    /\ outcome' = "success"
    /\ pc' = "done"
    /\ UNCHANGED <<envVars, csvVars, target_dirs, dirVars, results, logVars,
                   error>>

\* except Exception as e: echo the error, raise click.Abort()
MainExcept ==
    /\ pc = "except"
    /\ outcome' = "failure"
    /\ pc' = "done"
    /\ UNCHANGED <<envVars, csvVars, target_dirs, dirVars, results, logVars,
                   error, report>>

Next ==
    \/ CheckRoot
    \/ OpenCsv
    \/ ReadRow
    \/ ReturnIds
    \/ StartScan
    \/ NextDir
    \/ ReadFile
    \/ ReturnValues
    \/ CoerceValue
    \/ StoreResult
    \/ ReturnResults
    \/ WriteJson
    \/ PrintResults
    \/ MainExcept

Spec == Init /\ [][Next]_vars

(***************************************************************************)
(* Vocabulary of the properties                                            *)
(***************************************************************************)
\* The values of the files of a listing that decode.
DecodedValues(fs) == UNION {fs[i].vals : i \in {j \in DOMAIN fs : fs[j].ok}}

\* The integers int() yields from the samples it accepts.
IntegerValues(V) == {PyInt(v).val : v \in {w \in V : PyInt(w).exc = "none"}}

\* D of a directory: the integer values discovered in its decodable images.
Discovered(fs) == IntegerValues(DecodedValues(fs))

\* The samples without a fractional component, as integers.
WholeValues(V) == {n \in 0..MaxLabel : Num(2 * n) \in V}

\* The loop has finished with the current directory (stored or given up).
AfterDir == pc \in {"loop", "output", "done"} /\ directory # NoDir

Key == Absolute(directory)

\* Nothing of the directory loop has happened.
NoDirectoryWork ==
    /\ directory = NoDir
    /\ target_dirs = {}
    /\ results = <<>>
    /\ file_errors = {} /\ processed = {} /\ dir_errors = {}

CorruptIndexes(fs) == {i \in DOMAIN fs : ~fs[i].ok}

IsAscending(s) == \A i, j \in DOMAIN s : i < j => s[i] < s[j]

(***************************************************************************)
(* Properties                                                              *)
(***************************************************************************)
\* C1: every entry the report receives equals D \ C, D the integer values
\* discovered in the directory's decodable images and C the loaded catalog,
\* and is empty exactly when D is a subset of C; entries already in the
\* report are never altered.
C1_EntryIsDiscoveredMinusCatalog ==
    [][\A k \in DOMAIN results' :
        IF k \in DOMAIN results
        THEN results'[k] = results[k]
        ELSE /\ k = Absolute(directory)
             /\ results'[k] = Discovered(files) \ csv_ids
             /\ (results'[k] = {}) <=> (Discovered(files) \subseteq csv_ids)]_vars

C1_Witness ==
    /\ AfterDir
    /\ Key \in DOMAIN results
    /\ Discovered(files) \cap csv_ids # {}
    /\ Discovered(files) \ csv_ids # {}

C3_UnparsableRowRaisesValueError ==
    (/\ pc \in {"except", "done"}
     /\ reader # <<>>
     /\ Head(reader).kind # "csverror"
     /\ (~has_id \/ PyIntStr(Head(reader)).exc # "none"))
    => (error = "ValueError" /\ ~csv_loaded /\ csv_ids = {})

\* C4: when exactly one file of a directory fails to decode and the others
\* decode, that file alone is reported, the directory's values are the union
\* of the decoded files' values, the directory has its entry and the run
\* ends in success.
C4_CorruptFileIsIsolated ==
    (/\ AfterDir
     /\ Cardinality(CorruptIndexes(files)) = 1
     /\ Len(files) > 1)
    => /\ {e \in file_errors : e[1] = Key} = {<<Key, i>> : i \in CorruptIndexes(files)}
       /\ unique_values = DecodedValues(files)
       /\ Key \in DOMAIN results
       /\ pc = "done" => outcome = "success"

\* C5: only samples without a fractional component reach the integer set
\* and the missing-id set; a sample such as 2.5 contributes nothing.
C5_FractionalSamplesExcluded ==
    /\ (pc = "coerce" \/ AfterDir) => tiff_integers \subseteq WholeValues(unique_values)
    /\ (AfterDir /\ Key \in DOMAIN results)
        => results[Key] \subseteq WholeValues(DecodedValues(files))

\* C6: the report has one entry per label directory visited, keyed by its
\* absolute path and drawn from that directory's own files only.
C6_OneEntryPerDirectory ==
    /\ (pc \in {"output", "done"} /\ error = "none")
        => DOMAIN results = processed \cup dir_errors
    /\ \A k \in DOMAIN results : k \in {Absolute(p) : p \in Candidates}
    /\ (AfterDir /\ Key \in DOMAIN results)
        => results[Key] \subseteq Discovered(files)

\* C7: the JSON report maps every directory of the results to the array of
\* its missing ids in ascending order.
C7_JsonArraysSorted ==
    report.kind = "json" =>
        /\ DOMAIN report.body = DOMAIN results
        /\ \A d \in DOMAIN results :
            /\ Range(report.body[d]) = results[d]
            /\ Len(report.body[d]) = Cardinality(results[d])
            /\ IsAscending(report.body[d])

\* C8 as stated: the stdout report lists exactly the directories with at
\* least one missing id, each with its ids in ascending order.
C8_StdoutListsOnlyMissing ==
    report.kind = "stdout" =>
        /\ {l[1] : l \in report.lines} = {d \in DOMAIN results : results[d] # {}}
        /\ \A l \in report.lines :
            Range(l[2]) = results[l[1]] /\ IsAscending(l[2])

\* C8 amended: the stdout report lists every directory that has an entry in
\* the results, each with its ids in ascending order, the empty list for a
\* directory without missing ids.
C8_StdoutListsEveryEntry ==
    report.kind = "stdout" =>
        /\ {l[1] : l \in report.lines} = DOMAIN results
        /\ Cardinality(report.lines) = Cardinality(DOMAIN results)
        /\ \A l \in report.lines :
            /\ Range(l[2]) = results[l[1]]
            /\ Len(l[2]) = Cardinality(results[l[1]])
            /\ IsAscending(l[2])

C8_Witness ==
    /\ report.kind = "stdout"
    /\ \E l \in report.lines : l[2] = <<>>
    /\ \E l \in report.lines : Len(l[2]) > 1

\* C9: a label directory without any *.tif file gets the empty set as its
\* entry, raises nothing, and the run ends in success.
C9_EmptyDirectoryYieldsEmptyEntry ==
    (AfterDir /\ files = <<>>)
    => /\ Key \in DOMAIN results
       /\ results[Key] = {}
       /\ Key \in processed
       /\ Key \notin dir_errors
       /\ error = "none"
       /\ pc = "done" => outcome = "success"

C9_Witness ==
    /\ pc = "done"
    /\ directory # NoDir
    /\ files = <<>>
    /\ csv_ids # {}
    /\ Cardinality(DOMAIN results) > 1
    /\ outcome = "success"

\* C10: a sample int() cannot interpret (NaN, infinity) is skipped alone:
\* the directory keeps its entry, computed from the remaining samples.
C10_UncoercibleSampleSkipped ==
    (AfterDir /\ \E v \in unique_values : v.k \in {"nan", "inf"})
    => /\ Key \in DOMAIN results
       /\ Key \notin dir_errors
       /\ results[Key] = IntegerValues(unique_values) \ csv_ids

=============================================================================
